---------------------------- MODULE Spec2Model ----------------------------
(***************************************************************************)
(* Model of main.py: the MKAI voice-interaction bot and its session loop.  *)
(*                                                                         *)
(* Strings are sequences of characters.  Arabic letters are written by     *)
(* name ("meem" = U+0645, "sheen" = U+0634, ...), Latin letters and the    *)
(* blank as themselves, "TAB" is the tabulator, "FATHA" and "SHADDA" are   *)
(* Arabic diacritics.                                                      *)
(***************************************************************************)
EXTENDS Integers, Sequences, FiniteSets, TLC

(* ------------------------------ bounds --------------------------------- *)

\* Number of loop iterations (turns) a run of the session model may start.
MaxTurns == 2

\* Number of vocabulary words concatenated into a text for detect_dialect.
MaxWords == 2

(* --------------------------- string helpers ---------------------------- *)

\* str.lower() on one character (the upper-case letters of the alphabet used).
LowerChar(c) ==
    CASE c = "E" -> "e"
      [] c = "X" -> "x"
      [] c = "I" -> "i"
      [] c = "T" -> "t"
      [] c = "Y" -> "y"
      [] c = "N" -> "n"
      [] OTHER -> c

\* str.lower()
Lower(s) == [i \in 1..Len(s) |-> LowerChar(s[i])]

\* the characters str.strip() removes
IsSpace(c) == c \in {" ", "TAB"}

RECURSIVE LStrip(_)
LStrip(s) == IF s # <<>> /\ IsSpace(Head(s)) THEN LStrip(Tail(s)) ELSE s

RECURSIVE RStrip(_)
RStrip(s) ==
    IF s # <<>> /\ IsSpace(s[Len(s)]) THEN RStrip(SubSeq(s, 1, Len(s) - 1)) ELSE s

\* str.strip()
Strip(s) == RStrip(LStrip(s))

\* `keyword in text`: keyword occurs as a contiguous substring of text
Contains(keyword, text) ==
    \E i \in 1..(Len(text) - Len(keyword) + 1) :
        SubSeq(text, i, i + Len(keyword) - 1) = keyword

\* the literal 'exit'
ExitWord == <<"e", "x", "i", "t">>

\* the literal 'y'
YesWord == <<"y">>

(* ----------------------------- dialect_map ----------------------------- *)

\* insertion order of the dict, which is its iteration order
dialect_order == <<"egyptian", "gulf", "levantine">>

dialect_map ==
    [egyptian  |-> << <<"meem", "sheen">>,
                      <<"heh", "ain", "meem", "lam">>,
                      <<"ain", "alef", "waw", "zain">> >>,
     gulf      |-> << <<"sheen", "lam", "waw", "noon", "kaf">>,
                      <<"waw", "yeh", "noon", "kaf">>,
                      <<"alef", "beh", "sheen", "reh">> >>,
     levantine |-> << <<"sheen", "waw", " ", "alef_hamza", "khah", "beh", "alef",
                        "reh", "kaf">>,
                      <<"meem", "sheen", "alef", "noon", " ", "alef", "lam", "lam",
                        "heh">>,
                      <<"yeh", "meem", "alef">> >>]

\* any(keyword in text for keyword in keywords)
AnyKeyword(keywords, text) ==
    \E k \in 1..Len(keywords) : Contains(keywords[k], text)

RECURSIVE detect_from(_, _)
detect_from(i, text) ==
    IF i > Len(dialect_order) THEN "msa"
    ELSE IF AnyKeyword(dialect_map[dialect_order[i]], text) THEN dialect_order[i]
    ELSE detect_from(i + 1, text)

\* a plausible slip: the loop keeps the last matching dialect, not the first
RECURSIVE detect_last_from(_, _, _)
detect_last_from(i, text, found) ==
    IF i > Len(dialect_order) THEN found
    ELSE detect_last_from(i + 1, text,
             IF AnyKeyword(dialect_map[dialect_order[i]], text)
             THEN dialect_order[i] ELSE found)

detect_dialect_last(text) == detect_last_from(1, text, "msa")

\* a plausible slip: only the first keyword of each dialect is tested
RECURSIVE detect_first_keyword_from(_, _)
detect_first_keyword_from(i, text) ==
    IF i > Len(dialect_order) THEN "msa"
    ELSE IF Contains(dialect_map[dialect_order[i]][1], text) THEN dialect_order[i]
    ELSE detect_first_keyword_from(i + 1, text)

detect_dialect_first_keyword(text) == detect_first_keyword_from(1, text)

\* MKAI.detect_dialect
detect_dialect(text) == detect_from(1, text)

\* camel_tools dediac_ar: removes the Arabic diacritic marks
Diacritics == {"FATHA", "SHADDA"}

IsBaseChar(c) == c \notin Diacritics

dediac_ar(text) == SelectSeq(text, IsBaseChar)

(* --------------------------- generate_response ------------------------- *)

\* the response table of generate_response (replies transliterated)
responses ==
    [positive |-> <<"amr ra'i! hal turid al-mazid min al-musa'ada?",
                    "hadha mumti! madha turid an taf'al ba'da dhalik?">>,
     negative |-> <<"ana asif li-sama' dhalik. hal turid al-tahadduth akthar?",
                    "yabdu anna hadha sa'b. kayfa yumkinuni al-musa'ada?">>,
     neutral  |-> <<"fahimtu. madha turid an taf'al al-an?",
                    "hasanan, ma al-khutwa al-taliya?">>]

\* value of response before generate_response has returned in the turn
NoReply == "<unset>"

\* a plausible slip: an unknown category silently gets the neutral reply
generate_response_default(text, emotion) ==
    IF emotion \in DOMAIN responses
    THEN [raised |-> "", value |-> responses[emotion][1]]
    ELSE [raised |-> "", value |-> responses["neutral"][1]]

\* MKAI.generate_response: responses[emotion][0], KeyError for a missing key
generate_response(text, emotion) ==
    IF emotion \in DOMAIN responses
    THEN [raised |-> "", value |-> responses[emotion][1]]
    ELSE [raised |-> "KeyError", value |-> NoReply]

(* ----------------------------- text_to_speech -------------------------- *)

\* the fixed output path, and Python's None as a result
OutPath == "response.mp3"
NoAudio == "None"

\* no request was sent to the primary backend
NoRequest == [voice |-> "", rate10 |-> 0, pitch |-> 0]

\* a plausible slip: rate and pitch keyed by the labels the classifier returns
PrimaryRequest_by_label(emotion) ==
    [voice  |-> IF emotion = "positive" THEN "ar-XA-Standard-B"
                ELSE "ar-XA-Standard-D",
     rate10 |-> IF emotion = "positive" THEN 12 ELSE 10,
     pitch  |-> IF emotion = "positive" THEN 2 ELSE 0]

\* the VoiceSelectionParams / AudioConfig built for the primary backend
\* (speaking_rate in tenths)
PrimaryRequest(emotion) ==
    [voice  |-> IF emotion = "positive" THEN "ar-XA-Standard-B"
                ELSE "ar-XA-Standard-D",
     rate10 |-> IF emotion = "happy" THEN 12 ELSE 10,
     pitch  |-> IF emotion = "excited" THEN 2 ELSE 0]

\* a plausible slip: the guard tests only the client and a success re-enables
\* the flag, so the primary backend is retried on every call
text_to_speech_retry(flag, client, emotion, primary_ok, fallback_ok) ==
    IF client
    THEN IF primary_ok
         THEN [use_google_tts |-> TRUE, result |-> OutPath,
               backends |-> <<"google">>, request |-> PrimaryRequest(emotion)]
         ELSE [use_google_tts |-> FALSE,
               result |-> IF fallback_ok THEN OutPath ELSE NoAudio,
               backends |-> <<"google", "gtts">>,
               request |-> PrimaryRequest(emotion)]
    ELSE [use_google_tts |-> flag,
          result |-> IF fallback_ok THEN OutPath ELSE NoAudio,
          backends |-> <<"gtts">>, request |-> NoRequest]

\* a plausible slip: the handler of a primary failure returns None instead of
\* falling through to the fallback backend
text_to_speech_no_fallthrough(flag, client, emotion, primary_ok, fallback_ok) ==
    IF flag /\ client
    THEN IF primary_ok
         THEN [use_google_tts |-> flag, result |-> OutPath,
               backends |-> <<"google">>, request |-> PrimaryRequest(emotion)]
         ELSE [use_google_tts |-> FALSE, result |-> NoAudio,
               backends |-> <<"google">>, request |-> PrimaryRequest(emotion)]
    ELSE [use_google_tts |-> flag,
          result |-> IF fallback_ok THEN OutPath ELSE NoAudio,
          backends |-> <<"gtts">>, request |-> NoRequest]

\* MKAI.text_to_speech.  flag, client: self.use_google_tts, self.tts_client is
\* not None; primary_ok, fallback_ok: whether the backend's call succeeds.
\* Result: the new flag, the returned path, the backends invoked in order and
\* the request sent to the primary backend.
text_to_speech(flag, client, emotion, primary_ok, fallback_ok) ==
    IF flag /\ client
    THEN IF primary_ok
         THEN [use_google_tts |-> flag, result |-> OutPath,
               backends |-> <<"google">>, request |-> PrimaryRequest(emotion)]
         ELSE [use_google_tts |-> FALSE,
               result |-> IF fallback_ok THEN OutPath ELSE NoAudio,
               backends |-> <<"google", "gtts">>,
               request |-> PrimaryRequest(emotion)]
    ELSE [use_google_tts |-> flag,
          result |-> IF fallback_ok THEN OutPath ELSE NoAudio,
          backends |-> <<"gtts">>, request |-> NoRequest]

(* ------------------------------ save_feedback -------------------------- *)

\* a plausible slip: an empty correction is dropped instead of recorded
save_feedback_nonempty(db, now, user_input, bot_response, correction) ==
    IF correction = <<>> THEN db
    ELSE Append(db, [timestamp |-> now, input |-> user_input,
                     response |-> bot_response, correction |-> correction])

\* a plausible slip: the record is inserted at the front of the list
save_feedback_front(db, now, user_input, bot_response, correction) ==
    <<[timestamp |-> now, input |-> user_input,
       response |-> bot_response, correction |-> correction]>> \o db

\* a plausible slip: the record keeps the input text of the previous record
save_feedback_stale_input(db, now, user_input, bot_response, correction) ==
    Append(db, [timestamp |-> now,
                input |-> IF db = <<>> THEN user_input ELSE db[Len(db)].input,
                response |-> bot_response, correction |-> correction])

\* MKAI.save_feedback: feedback_db.append({...}); now stands for datetime.now()
save_feedback(db, now, user_input, bot_response, correction) ==
    Append(db, [timestamp |-> now, input |-> user_input,
                response |-> bot_response, correction |-> correction])

(* ------------------------------- the state ----------------------------- *)

VARIABLES
    pc,              \* position of the main program
    turn,            \* number of loop iterations started
    use_google_tts,  \* self.use_google_tts
    tts_client,      \* self.tts_client is not None
    feedback_db,     \* self.feedback_db
    line,            \* the line last typed at the text-entry prompt in the turn
    raw,             \* result["text"] of the transcription in the turn
    text,            \* main: text
    dialect,         \* main: dialect
    emotion,         \* main: emotion
    response,        \* main: response
    response_audio,  \* main: response_audio
    feedback,        \* main: feedback (the lower-cased rating)
    correction,      \* main: correction
    captures,        \* per turn started, whether record_audio returned a path
    backends,        \* the backends the last text_to_speech call invoked
    request,         \* the request the last text_to_speech call sent
    primary_failed,  \* a primary-backend call has failed in this run
    ratings,         \* number of ratings typed that are not 'y'/'Y'
    pending,         \* a correction was asked for and not entered yet
    stop_cause,      \* why the loop was left
    error,           \* the uncaught exception, if any
    reported         \* the count printed by the shutdown handler, if any

vars == <<pc, turn, use_google_tts, tts_client, feedback_db, line, raw, text,
          dialect, emotion, response, response_audio, feedback, correction,
          captures, backends, request, primary_failed, ratings, pending,
          stop_cause, error, reported>>

\* values of names that are not bound (yet) in the turn
NoLine == <<"<none>">>
NoText == <<"<unset>">>
NoTag == "<unset>"
NotReported == -1

\* Ctrl-C typed at a prompt
CtrlC == <<"^C">>

(* ------------------------------ the inputs ----------------------------- *)

\* lines typed at the text-entry prompt
Lines ==
    {<<>>, <<" ", "TAB">>, ExitWord, <<"E", "x", "I", "T">>,
     <<" ", "e", "x", "i", "t">>, <<"meem", "sheen">>}

\* transcripts the speech recogniser returns
Transcripts ==
    {<<"meem", "FATHA", "sheen">>, <<"sheen", "lam", "waw", "noon", "kaf">>}

\* labels the sentiment classifier returns
Labels == {"positive", "negative", "neutral", "happy"}

\* a collaborator call that raises: the classifier, the recogniser
Failure == "<raises>"
NoTranscript == <<"<raises>">>

\* lines typed at the rating prompt and at the correction prompt
Ratings == {<<"y">>, <<"Y">>, <<"n">>, <<>>}
Corrections == {<<>>, <<"o", "k">>}

(* --------------------------------- Init -------------------------------- *)

\* a plausible slip: the handler of a failed construction leaves the flag set
init_tts_flag_kept(cred_exists, ctor_ok) ==
    [tts_client |-> (cred_exists /\ ctor_ok), use_google_tts |-> cred_exists]

\* the try statement of MKAI.__init__: the client exists, and the flag stays
\* True, exactly when the credentials file exists and the client is constructed
init_tts(cred_exists, ctor_ok) ==
    [tts_client |-> (cred_exists /\ ctor_ok),
     use_google_tts |-> (cred_exists /\ ctor_ok)]

\* MKAI.__init__
Init ==
    /\ \E cred_exists \in BOOLEAN, ctor_ok \in BOOLEAN :
          /\ tts_client = init_tts(cred_exists, ctor_ok).tts_client
          /\ use_google_tts = init_tts(cred_exists, ctor_ok).use_google_tts
    /\ feedback_db = <<>>
    /\ pc = "record_audio"
    /\ turn = 0
    /\ line = NoLine
    /\ raw = NoText
    /\ text = NoText
    /\ dialect = NoTag
    /\ emotion = NoTag
    /\ response = NoReply
    /\ response_audio = "<unset>"
    /\ feedback = NoLine
    /\ correction = NoLine
    /\ captures = <<>>
    /\ backends = <<>>
    /\ request = NoRequest
    /\ primary_failed = FALSE
    /\ ratings = 0
    /\ pending = FALSE
    /\ stop_cause = "none"
    /\ error = ""
    /\ reported = NotReported

self_vars == <<use_google_tts, tts_client, feedback_db>>
tts_ghost == <<backends, request, primary_failed>>
turn_vars ==
    <<line, raw, text, dialect, emotion, response, response_audio, feedback,
      correction>>
stop_vars == <<stop_cause, error, reported>>

\* an exception other than KeyboardInterrupt leaves the try statement of the
\* main program uncaught: the process ends with a traceback
Raise(exc) ==
    /\ pc' = "exit_process"
    /\ stop_cause' = "error"
    /\ error' = exc
    /\ reported' = NotReported

(* ------------------------------ the actions ---------------------------- *)

\* Loop top and MKAI.record_audio.  A capture failure is caught inside
\* record_audio, which then returns None.  The names of the turn are rebound
\* before they are read again; the model clears them here.
RecordAudio ==
    /\ pc = "record_audio"
    /\ turn < MaxTurns
    /\ turn' = turn + 1
    /\ \E capture_ok \in BOOLEAN :
          /\ pc' = IF capture_ok THEN "speech_to_text" ELSE "get_text_input"
          /\ captures' = Append(captures, capture_ok)
    /\ line' = NoLine
    /\ raw' = NoText
    /\ text' = NoText
    /\ dialect' = NoTag
    /\ emotion' = NoTag
    /\ response' = NoReply
    /\ response_audio' = "<unset>"
    /\ feedback' = NoLine
    /\ correction' = NoLine
    /\ backends' = <<>>
    /\ request' = NoRequest
    /\ UNCHANGED <<self_vars, primary_failed, ratings, pending, stop_vars>>

\* MKAI.speech_to_text: the dialect is detected on the transcript as returned
\* by the recogniser, the text returned is the transcript without diacritics
speech_to_text(transcript) ==
    [text |-> dediac_ar(transcript), dialect |-> detect_dialect(transcript)]

SpeechToText ==
    /\ pc = "speech_to_text"
    /\ \E r \in Transcripts \cup {NoTranscript} :
          IF r = NoTranscript
          THEN /\ Raise("TranscriptionError")
               /\ UNCHANGED <<raw, text, dialect>>
          ELSE /\ raw' = r
               /\ text' = speech_to_text(r).text
               /\ dialect' = speech_to_text(r).dialect
               /\ pc' = "analyze_emotion"
               /\ UNCHANGED stop_vars
    /\ UNCHANGED <<turn, self_vars, line, emotion, response, response_audio,
                   feedback, correction, captures, tts_ghost, ratings, pending>>

\* a plausible slip: typed text goes through detect_dialect like a transcript
text_input_dialect_detected(key) == detect_dialect(key)

\* the dialect MKAI.get_text_input returns with the text: always 'msa'
text_input_dialect(key) == "msa"

\* a plausible slip: the comparison with 'exit' without lower()
text_input_step_cased(key) ==
    IF key = CtrlC THEN "exit"
    ELSE IF key = ExitWord THEN "exit"
    ELSE IF Strip(key) # <<>> THEN "text"
    ELSE "reprompt"

\* one iteration of the loop of MKAI.get_text_input on the line typed, or on
\* Ctrl-C (KeyboardInterrupt is caught there): return (None, None), return
\* (text, 'msa'), or print the hint and prompt again
text_input_step(key) ==
    IF key = CtrlC THEN "exit"
    ELSE IF Lower(key) = ExitWord THEN "exit"
    ELSE IF Strip(key) # <<>> THEN "text"
    ELSE "reprompt"

\* MKAI.get_text_input, one prompt, and the `if text is None: break` after it
GetTextInput ==
    /\ pc = "get_text_input"
    /\ \E key \in Lines \cup {CtrlC} :
          /\ line' = key
          /\ CASE text_input_step(key) = "exit" ->
                    /\ pc' = "exit_process"
                    /\ stop_cause' = IF key = CtrlC THEN "interrupt" ELSE "exit"
                    /\ UNCHANGED <<text, dialect, error, reported>>
               [] text_input_step(key) = "text" ->
                    /\ text' = key
                    /\ dialect' = text_input_dialect(key)
                    /\ pc' = "analyze_emotion"
                    /\ UNCHANGED stop_vars
               [] OTHER ->
                    /\ UNCHANGED <<pc, text, dialect, stop_vars>>
    /\ UNCHANGED <<turn, self_vars, raw, emotion, response, response_audio,
                   feedback, correction, captures, tts_ghost, ratings, pending>>

\* MKAI.analyze_emotion, called outside any handler for its failures
AnalyzeEmotion ==
    /\ pc = "analyze_emotion"
    /\ \E label \in Labels \cup {Failure} :
          IF label = Failure
          THEN /\ Raise("ClassifierError")
               /\ UNCHANGED emotion
          ELSE /\ emotion' = label
               /\ pc' = "generate_response"
               /\ UNCHANGED stop_vars
    /\ UNCHANGED <<turn, self_vars, line, raw, text, dialect, response,
                   response_audio, feedback, correction, captures, tts_ghost, ratings, pending>>

\* response = bot.generate_response(text, emotion)
GenerateResponse ==
    /\ pc = "generate_response"
    /\ IF generate_response(text, emotion).raised # ""
       THEN /\ Raise(generate_response(text, emotion).raised)
            /\ UNCHANGED response
       ELSE /\ response' = generate_response(text, emotion).value
            /\ pc' = "text_to_speech"
            /\ UNCHANGED stop_vars
    /\ UNCHANGED <<turn, self_vars, line, raw, text, dialect, emotion,
                   response_audio, feedback, correction, captures, tts_ghost, ratings, pending>>

\* response_audio = bot.text_to_speech(response, emotion)
TextToSpeech ==
    /\ pc = "text_to_speech"
    /\ \E primary_ok \in BOOLEAN, fallback_ok \in BOOLEAN :
          LET r == text_to_speech(use_google_tts, tts_client, emotion,
                                  primary_ok, fallback_ok)
          IN  /\ use_google_tts' = r.use_google_tts
              /\ response_audio' = r.result
              /\ backends' = r.backends
              /\ request' = r.request
              /\ primary_failed' =
                    (primary_failed \/ (Head(r.backends) = "google" /\ ~primary_ok))
    /\ pc' = "play"
    /\ UNCHANGED <<turn, tts_client, feedback_db, line, raw, text, dialect,
                   emotion, response, feedback, correction, captures, ratings,
                   pending, stop_vars>>

\* sf.read(response_audio); sd.play(audio, fs); sd.wait(): sf.read(None)
\* raises TypeError, and a failure of the file read or of the playback device
\* raises as well; none of them is caught
Play ==
    /\ pc = "play"
    /\ \E playback_ok \in BOOLEAN :
          IF response_audio = NoAudio
          THEN Raise("TypeError")
          ELSE IF ~playback_ok
          THEN Raise("PlaybackError")
          ELSE /\ pc' = "feedback"
               /\ UNCHANGED stop_vars
    /\ UNCHANGED <<turn, self_vars, turn_vars, captures, tts_ghost, ratings,
                   pending>>

\* feedback = input(...).lower(); if feedback != 'y': ...
Feedback ==
    /\ pc = "feedback"
    /\ \E rating \in Ratings :
          /\ feedback' = Lower(rating)
          /\ pc' = IF Lower(rating) # YesWord THEN "correction" ELSE "record_audio"
          /\ pending' = (Lower(rating) # YesWord)
          /\ ratings' = IF rating \in {<<"y">>, <<"Y">>} THEN ratings ELSE ratings + 1
    /\ UNCHANGED <<turn, self_vars, line, raw, text, dialect, emotion, response,
                   response_audio, correction, captures, tts_ghost, stop_vars>>

\* correction = input(...); bot.save_feedback(text, response, correction)
Correction ==
    /\ pc = "correction"
    /\ \E typed \in Corrections :
          /\ correction' = typed
          /\ feedback_db' = save_feedback(feedback_db, turn, text, response, typed)
    /\ pending' = FALSE
    /\ pc' = "record_audio"
    /\ UNCHANGED <<turn, use_google_tts, tts_client, line, raw, text, dialect,
                   emotion, response, response_audio, feedback, captures,
                   tts_ghost, ratings, stop_vars>>

\* KeyboardInterrupt anywhere in the loop outside get_text_input (record_audio
\* and text_to_speech catch Exception only) reaches the handler of the main
\* program, which prints the number of feedback entries
Interrupt ==
    /\ pc \in {"record_audio", "speech_to_text", "analyze_emotion",
               "generate_response", "text_to_speech", "play", "feedback",
               "correction"}
    /\ pc' = "exit_process"
    /\ stop_cause' = "interrupt"
    /\ reported' = Len(feedback_db)
    /\ UNCHANGED <<turn, self_vars, turn_vars, captures, tts_ghost, ratings,
                   pending, error>>

Next ==
    \/ RecordAudio
    \/ SpeechToText
    \/ GetTextInput
    \/ AnalyzeEmotion
    \/ GenerateResponse
    \/ TextToSpeech
    \/ Play
    \/ Feedback
    \/ Correction
    \/ Interrupt

Spec == Init /\ [][Next]_vars

\* the types of the variables
TypeOK ==
    /\ pc \in {"record_audio", "speech_to_text", "get_text_input",
               "analyze_emotion", "generate_response", "text_to_speech", "play",
               "feedback", "correction", "exit_process"}
    /\ turn \in 0..MaxTurns
    /\ use_google_tts \in BOOLEAN
    /\ tts_client \in BOOLEAN
    /\ Len(feedback_db) <= turn
    /\ stop_cause \in {"none", "exit", "interrupt", "error"}
    /\ ratings \in 0..MaxTurns
    /\ reported \in -1..MaxTurns

(* ------------------- detect_dialect on bounded texts -------------------- *)

\* words the texts given to detect_dialect are concatenated from: the nine
\* keywords, two single letters that form a keyword across a word boundary,
\* a Latin word and the blank
Vocabulary ==
    {dialect_map[d][k] : d \in DOMAIN dialect_map, k \in 1..3}
      \cup {<<"meem">>, <<"sheen">>, <<"h", "i">>, <<" ">>}

RECURSIVE TextsOf(_)
TextsOf(n) ==
    IF n = 0 THEN {<<>>}
    ELSE TextsOf(n - 1) \cup {s \o w : s \in TextsOf(n - 1), w \in Vocabulary}

DialectTexts == TextsOf(MaxWords)

InitDialect ==
    /\ pc = "detect_dialect"
    /\ raw \in DialectTexts
    /\ tts_client = FALSE
    /\ use_google_tts = FALSE
    /\ feedback_db = <<>>
    /\ turn = 0
    /\ line = NoLine
    /\ text = NoText
    /\ dialect = NoTag
    /\ emotion = NoTag
    /\ response = NoReply
    /\ response_audio = "<unset>"
    /\ feedback = NoLine
    /\ correction = NoLine
    /\ captures = <<>>
    /\ backends = <<>>
    /\ request = NoRequest
    /\ primary_failed = FALSE
    /\ ratings = 0
    /\ pending = FALSE
    /\ stop_cause = "none"
    /\ error = ""
    /\ reported = NotReported

\* dialect = self.detect_dialect(text), called twice on the same text
DetectDialect ==
    /\ pc \in {"detect_dialect", "detected"}
    /\ dialect' = detect_dialect(raw)
    /\ pc' = IF pc = "detect_dialect" THEN "detected" ELSE "detected_again"
    /\ UNCHANGED <<turn, self_vars, line, raw, text, emotion, response,
                   response_audio, feedback, correction, captures, tts_ghost,
                   ratings, pending, stop_vars>>

NextDialect == DetectDialect

SpecDialect == InitDialect /\ [][NextDialect]_vars

(* ------------------------------ properties ----------------------------- *)

\* C1: the primary-backend flag only moves from usable to unusable: once
\* use_google_tts is false it is false in every later state.
C1_FlagMonotone == [][use_google_tts = FALSE => use_google_tts' = FALSE]_vars

\* the flag was usable at start-up (the client exists), a primary call failed
\* and a later turn's text_to_speech call has returned with the flag still false
C1_Witness ==
    /\ tts_client /\ ~use_google_tts
    /\ turn = MaxTurns /\ pc = "feedback"
    /\ primary_failed /\ backends = <<"gtts">>

\* C2: after the first text_to_speech call in which the primary backend
\* failed, every later call invokes the fallback backend only.
C2_NoPrimaryAfterFailure ==
    [][(primary_failed /\ pc = "text_to_speech" /\ pc' = "play")
          => (backends' = <<"gtts">> /\ request' = NoRequest)]_vars

\* a call made after a primary failure has produced the file with the fallback
C2_Witness ==
    /\ primary_failed /\ tts_client
    /\ pc = "play" /\ backends = <<"gtts">> /\ response_audio = OutPath

\* C3: the loop is left only through a typed exit or an interruption signal; a
\* failure of a collaborator never terminates it.
C3_OnlyExitOrInterrupt ==
    pc = "exit_process" => stop_cause \in {"exit", "interrupt"}

\* C4: when both backends fail, text_to_speech returns None and the loop skips
\* playback and goes on to the feedback prompt.
C4_SkipPlayback ==
    [][(pc = "play" /\ response_audio = NoAudio /\ stop_cause' # "interrupt")
          => pc' = "feedback"]_vars

\* C5 as stated: at every state the length of the feedback sequence equals
\* the number of non-affirmative ratings given so far.
C5_LenEqualsRatings == Len(feedback_db) = ratings

\* C5 as amended: the length of the feedback sequence equals the number of
\* non-affirmative ratings given so far, less one while the correction asked
\* for by the latest of them has not been entered.
C5_LenEqualsCorrectedRatings ==
    Len(feedback_db) = ratings - (IF pending THEN 1 ELSE 0)

\* one non-affirmative rating with its correction, then an affirmative one
C5_Witness ==
    /\ Len(feedback_db) = 1 /\ ratings = 1
    /\ turn = 2 /\ feedback = YesWord /\ pc = "record_audio"

\* C6: an interruption signal in any state of the loop stops it, and the
\* shutdown action then reports the number of feedback records.
C6_InterruptThenShutdown ==
    (pc = "exit_process" /\ stop_cause = "interrupt")
        => reported = Len(feedback_db)

\* C7: generate_response returns the first candidate of the category, a
\* non-empty string, for positive, negative and neutral, and fails with
\* KeyError, returning no reply, for every other category.
C7_ResponseOrKeyError ==
    [][(pc = "generate_response" /\ stop_cause' # "interrupt")
          => IF emotion \in {"positive", "negative", "neutral"}
             THEN /\ response' = Head(responses[emotion])
                  /\ response' # ""
                  /\ pc' = "text_to_speech"
                  /\ error' = ""
             ELSE /\ error' = "KeyError"
                  /\ response' = NoReply
                  /\ pc' = "exit_process"]_vars

\* the classifier's label is no key of the table and the call has raised
C7_Witness ==
    /\ emotion = "happy" /\ error = "KeyError"
    /\ pc = "exit_process" /\ response = NoReply

\* 'exit' in any mix of cases
IsExitLine(l) ==
    /\ Len(l) = 4
    /\ l[1] \in {"e", "E"} /\ l[2] \in {"x", "X"}
    /\ l[3] \in {"i", "I"} /\ l[4] \in {"t", "T"}

\* empty or made of whitespace only
IsBlankLine(l) == \A i \in 1..Len(l) : l[i] \in {" ", "TAB"}

\* C8: get_text_input returns Exit at a line equal to 'exit' in any case and
\* on an interruption signal, prompts again on an empty or whitespace-only
\* line, and returns the line as text exactly when it is neither.
C8_TextInput ==
    /\ (line = CtrlC \/ IsExitLine(line))
          => (pc = "exit_process" /\ text = NoText /\ reported = NotReported
              /\ stop_cause = IF line = CtrlC THEN "interrupt" ELSE "exit")
    /\ (line # NoLine /\ IsBlankLine(line))
          => (pc = "get_text_input" /\ text = NoText)
    /\ (line \notin {NoLine, CtrlC} /\ ~IsExitLine(line) /\ ~IsBlankLine(line))
          => (text = line /\ dialect = "msa" /\ pc # "get_text_input")
    /\ (pc = "get_text_input" /\ line # NoLine) => IsBlankLine(line)

\* the line ExIT was typed and the loop was left through the typed exit
C8_Witness ==
    /\ line = <<"E", "x", "I", "T">>
    /\ pc = "exit_process" /\ stop_cause = "exit" /\ text = NoText

\* the text contains a keyword of dialect d
HasKeyword(d, t) == \E k \in 1..3 : Contains(dialect_map[d][k], t)

Detected == pc \in {"detected", "detected_again"}

\* C9 as stated: for every text containing a keyword of a dialect
\* detect_dialect returns that dialect, and msa for a text containing none.
C9_KeywordGivesItsDialect ==
    Detected =>
        /\ \A d \in {"egyptian", "gulf", "levantine"} :
              HasKeyword(d, raw) => dialect = d
        /\ (\A d \in {"egyptian", "gulf", "levantine"} : ~HasKeyword(d, raw))
              => dialect = "msa"

\* C9 as amended: for every text containing keywords of exactly one dialect
\* detect_dialect returns that dialect, and msa for a text containing none.
C9_OnlyDialectGivesItsDialect ==
    Detected =>
        /\ \A d \in {"egyptian", "gulf", "levantine"} :
              (HasKeyword(d, raw)
                 /\ \A e \in {"egyptian", "gulf", "levantine"} \ {d} :
                       ~HasKeyword(e, raw))
                 => dialect = d
        /\ (\A d \in {"egyptian", "gulf", "levantine"} : ~HasKeyword(d, raw))
              => dialect = "msa"

\* a text whose only keyword is the second of the gulf lexicon
C9_Witness ==
    /\ Detected /\ dialect = "gulf"
    /\ Contains(<<"waw", "yeh", "noon", "kaf">>, raw)
    /\ ~HasKeyword("egyptian", raw) /\ ~HasKeyword("levantine", raw)
    /\ ~Contains(<<"sheen", "lam", "waw", "noon", "kaf">>, raw)

\* C10: detect_dialect returns one tag of {egyptian, gulf, levantine, msa}: the
\* first dialect in the order egyptian, gulf, levantine that has a keyword in
\* the text, msa if none has; a second call on the text returns the same tag.
C10_FirstMatchInOrder ==
    Detected =>
        /\ dialect \in {"egyptian", "gulf", "levantine", "msa"}
        /\ dialect = IF HasKeyword("egyptian", raw) THEN "egyptian"
                     ELSE IF HasKeyword("gulf", raw) THEN "gulf"
                     ELSE IF HasKeyword("levantine", raw) THEN "levantine"
                     ELSE "msa"

\* keywords of gulf and of levantine, none of egyptian: gulf, on both calls
C10_Witness ==
    /\ pc = "detected_again" /\ dialect = "gulf"
    /\ HasKeyword("gulf", raw) /\ HasKeyword("levantine", raw)
    /\ ~HasKeyword("egyptian", raw)

\* C11: when the sentiment classifier fails, the turn is abandoned and the
\* loop returns to the loop top for a new turn.
C11_ClassifierFailureAbandonsTurn ==
    [][(pc = "analyze_emotion" /\ stop_cause' # "interrupt"
          /\ emotion' = NoTag)
          => (pc' = "record_audio" /\ response' = NoReply
              /\ feedback_db' = feedback_db)]_vars

\* s is an initial segment of t
IsPrefix(s, t) == Len(s) <= Len(t) /\ SubSeq(t, 1, Len(s)) = s

\* C12: the feedback sequence is append-only: in every step the old sequence
\* is a prefix of the new one, and only save_feedback (called when the
\* correction has been typed) extends it, by one record.
C12_AppendOnly ==
    [][/\ IsPrefix(feedback_db, feedback_db')
       /\ feedback_db' # feedback_db
             => (pc = "correction" /\ Len(feedback_db') = Len(feedback_db) + 1)]_vars

\* two records, appended in two turns
C12_Witness ==
    /\ Len(feedback_db) = 2
    /\ feedback_db[1].timestamp = 1 /\ feedback_db[2].timestamp = 2

\* C13: in the speech path the dialect is detected on the normalized
\* transcript, and the pair returned is (normalized text, that dialect).
C13_DialectOfNormalizedText ==
    raw # NoText =>
        (text = dediac_ar(raw) /\ dialect = detect_dialect(dediac_ar(raw)))

\* C14: a text_to_speech call made while the primary backend is usable
\* invokes it; a primary failure clears the flag and the fallback is invoked
\* in the same call; a success of either backend returns the one fixed path,
\* and every call returns that path or None.
C14_FallThroughInSameCall ==
    [][(pc = "text_to_speech" /\ pc' = "play")
          => /\ response_audio' \in {OutPath, NoAudio}
             /\ (use_google_tts /\ tts_client)
                   => \/ /\ backends' = <<"google">>
                         /\ response_audio' = OutPath
                         /\ use_google_tts' /\ primary_failed' = primary_failed
                      \/ /\ backends' = <<"google", "gtts">>
                         /\ ~use_google_tts' /\ primary_failed'
             /\ ~(use_google_tts /\ tts_client)
                   => (backends' = <<"gtts">> /\ use_google_tts' = use_google_tts)]_vars

\* the primary failed, the flag is cleared and the fallback wrote the file
C14_Witness ==
    /\ pc = "play" /\ backends = <<"google", "gtts">>
    /\ response_audio = OutPath /\ ~use_google_tts /\ tts_client

\* C15: every typed line returned as input is returned with the dialect msa,
\* also when it contains a keyword of a dialect lexicon.
C15_TypedTextIsMsa ==
    (line \notin {NoLine, CtrlC} /\ text # NoText) => (text = line /\ dialect = "msa")

\* the typed text contains the egyptian keyword and is tagged msa
C15_Witness ==
    /\ text = <<"meem", "sheen">> /\ line = text
    /\ Contains(dialect_map["egyptian"][1], text) /\ dialect = "msa"
    /\ pc = "analyze_emotion"

\* C16: a record appended in a turn holds the input text, the reply and the
\* correction of that turn.
C16_RecordOfSameTurn ==
    [][feedback_db' # feedback_db
          => LET rec == feedback_db'[Len(feedback_db')]
             IN  /\ rec.timestamp = turn
                 /\ rec.input = text /\ text # NoText
                 /\ rec.response = response /\ response # NoReply
                 /\ rec.correction = correction' /\ correction = NoLine]_vars

\* two turns with different inputs, replies and corrections, both recorded
C16_Witness ==
    /\ Len(feedback_db) = 2
    /\ feedback_db[1].input # feedback_db[2].input
    /\ feedback_db[1].response # feedback_db[2].response
    /\ feedback_db[1].correction # feedback_db[2].correction

\* C17: the text-entry prompt is shown in a turn exactly when the audio
\* capture of that turn failed, and in a run in which every capture succeeds
\* the loop is left only through an interruption signal.
C17_PromptIffCaptureFailed ==
    /\ (pc = "get_text_input" \/ line # NoLine)
          => (turn >= 1 /\ ~captures[turn])
    /\ (turn >= 1 /\ ~captures[turn]) => (pc = "get_text_input" \/ line # NoLine)
    /\ (pc = "exit_process" /\ \A i \in 1..Len(captures) : captures[i])
          => stop_cause = "interrupt"

\* C18: for positive, negative and neutral the primary backend is called with
\* speaking rate 1.0 and pitch 0; the voice is the brighter one exactly when
\* the emotion is positive, the calmer one otherwise.
C18_RateAndPitchFixed ==
    request # NoRequest =>
        /\ emotion \in {"positive", "negative", "neutral"}
        /\ request.rate10 = 10 /\ request.pitch = 0
        /\ request.voice = IF emotion = "positive" THEN "ar-XA-Standard-B"
                           ELSE "ar-XA-Standard-D"

\* a positive reply was sent to the primary backend
C18_Witness ==
    /\ emotion = "positive" /\ backends = <<"google">>
    /\ request.voice = "ar-XA-Standard-B" /\ request.rate10 = 10

\* C19: the flag being usable implies that the client exists; without a
\* client (credentials missing or construction failed) the flag is unusable
\* from the start and the primary backend is never invoked.
C19_FlagImpliesClient ==
    /\ use_google_tts => tts_client
    /\ ~tts_client
          => /\ ~use_google_tts /\ ~primary_failed
             /\ request = NoRequest /\ backends \in {<<>>, <<"gtts">>}

\* no client: a text_to_speech call has gone to the fallback directly
C19_Witness ==
    /\ ~tts_client /\ ~use_google_tts
    /\ pc = "feedback" /\ backends = <<"gtts">> /\ response_audio = OutPath

====
